---- MODULE Spec2Model ----
(***************************************************************************)
(* Model of the Python reference harness for the simplified HMAC-SHA3-512 *)
(* (python/HMAC/hmac_sha3_512.py) and the SHA3-512 hardware framing       *)
(* (python/SHA3/sha3_512.py).                                             *)
(*                                                                         *)
(* Python values are modelled as records [type, neg, val]:                 *)
(*   int   : neg is the sign, val the magnitude as base-256 digits, most   *)
(*           significant digit first, without leading zero digits (the     *)
(*           way the hexadecimal literal is written); Python ints are      *)
(*           unbounded, so no machine width is attached to them;           *)
(*   bytes : val is the sequence of bytes (0..255);                        *)
(*   list  : val is the sequence of the elements (Python values);          *)
(*   str   : stands for any value that is neither int, bytes nor list.     *)
(* hashlib.sha3_512 is an external primitive: its digest is modelled as    *)
(* the symbolic value [sha3_512 |-> data], i.e. a deterministic and        *)
(* collision-free function of the bytes it was fed.                        *)
(***************************************************************************)
EXTENDS Integers, Sequences, FiniteSets, TLC

\* ------------------------------------------------------------------------
\* Bounds of the model
\* ------------------------------------------------------------------------
MaxWords == 2
MaxCalls == 1

\* ------------------------------------------------------------------------
\* Program constants
\* ------------------------------------------------------------------------
IPAD_BYTE == 54
KEY_BYTES == 64
PADDED_KEY_BYTES == 72
KEY_PAD_ZEROS == 8
WORD_BYTES == 4
PUF_BYTES == 88

\* ------------------------------------------------------------------------
\* Python values
\* ------------------------------------------------------------------------
PyInt(neg, mag) == [type |-> "int", neg |-> neg, val |-> mag]
PyBytes(b) == [type |-> "bytes", neg |-> FALSE, val |-> b]
PyList(l) == [type |-> "list", neg |-> FALSE, val |-> l]
PyStr == [type |-> "str", neg |-> FALSE, val |-> <<>>]

Ok(v) == [ok |-> TRUE, val |-> v, err |-> "none"]
Raise(e) == [ok |-> FALSE, val |-> <<>>, err |-> e]

Repeat(b, n) == [i \in 1..n |-> b]
Reverse(s) == [i \in 1..Len(s) |-> s[Len(s) + 1 - i]]

\* a magnitude without its leading zero digits
RECURSIVE StripZeros(_)
StripZeros(mag) ==
    IF mag # <<>> /\ Head(mag) = 0 THEN StripZeros(Tail(mag)) ELSE mag

\* bits 8j..8j+7 of the non-negative integer x
ByteOf(x, j) == IF j < Len(x.val) THEN x.val[Len(x.val) - j] ELSE 0

RECURSIVE Concat(_)
Concat(ss) == IF ss = <<>> THEN <<>> ELSE Head(ss) \o Concat(Tail(ss))

\* a ^ b on two bytes
RECURSIVE XorBits(_, _, _)
XorBits(a, b, n) ==
    IF n = 0 THEN 0
    ELSE ((a + b) % 2) + 2 * XorBits(a \div 2, b \div 2, n - 1)

XorTable == [a \in 0..255 |-> [b \in 0..255 |-> XorBits(a, b, 8)]]

Xor(a, b) == XorTable[a][b]

\* int.to_bytes(length, byteorder): OverflowError for a negative int and for
\* an int that needs more than length bytes; otherwise the magnitude, zero
\* filled on the most significant side, in the requested byte order.
to_bytes_big(x, length) ==
    IF x.neg THEN Raise("OverflowError")
    ELSE IF Len(x.val) > length THEN Raise("OverflowError")
    ELSE Ok(Repeat(0, length - Len(x.val)) \o x.val)

to_bytes_little(x, length) ==
    IF x.neg THEN Raise("OverflowError")
    ELSE IF Len(x.val) > length THEN Raise("OverflowError")
    ELSE Ok(Reverse(Repeat(0, length - Len(x.val)) \o x.val))

\* b''.join(word.to_bytes(4, byteorder='little') for word in words): the
\* generator is consumed in order and the first failing word raises.
RECURSIVE join_to_bytes_little(_)
join_to_bytes_little(words) ==
    IF words = <<>> THEN Ok(<<>>)
    ELSE LET h == to_bytes_little(Head(words), WORD_BYTES)
         IN  IF ~h.ok THEN h
             ELSE LET r == join_to_bytes_little(Tail(words))
                  IN  IF ~r.ok THEN r ELSE Ok(h.val \o r.val)

\* hashlib.sha3_512().update(data).digest()
sha3_512(data) == [sha3_512 |-> data]

\* ------------------------------------------------------------------------
\* HMAC_SHA3_512 (python/HMAC/hmac_sha3_512.py)
\* ------------------------------------------------------------------------

\* __init__ with byteorder='little' for an int key
init_key_little(k) ==
    IF k.type = "int" THEN to_bytes_little(k, KEY_BYTES)
    ELSE IF k.type = "bytes"
         THEN IF Len(k.val) # KEY_BYTES THEN Raise("ValueError") ELSE Ok(k.val)
         ELSE Raise("TypeError")

\* __init__ without the length check on a bytes key
init_key_nocheck(k) ==
    IF k.type = "int" THEN to_bytes_big(k, KEY_BYTES)
    ELSE IF k.type = "bytes" THEN Ok(k.val)
         ELSE Raise("TypeError")

\* __init__: the value stored in self.key, or the exception raised
init_key(k) ==
    IF k.type = "int" THEN to_bytes_big(k, KEY_BYTES)
    ELSE IF k.type = "bytes"
         THEN IF Len(k.val) # KEY_BYTES THEN Raise("ValueError") ELSE Ok(k.val)
         ELSE Raise("TypeError")

\* _pad_key with the zero bytes in front of the key
pad_key_front(self_key) == Repeat(0, KEY_PAD_ZEROS) \o self_key

\* _pad_key: self.key + b'\x00' * 8
pad_key(self_key) == self_key \o Repeat(0, KEY_PAD_ZEROS)

\* bytes(a ^ b for a, b in zip(x, y)): zip stops at the shorter operand
zip_xor(x, y) ==
    LET n == IF Len(x) < Len(y) THEN Len(x) ELSE Len(y)
    IN  [i \in 1..n |-> Xor(x[i], y[i])]

\* _compute_ipad_block returning the pad without the key XORed in
compute_ipad_block_nokey(self_key) == Repeat(IPAD_BYTE, PADDED_KEY_BYTES)

\* _compute_ipad_block
compute_ipad_block(self_key) ==
    LET key_padded == pad_key(self_key)
        ipad == Repeat(IPAD_BYTE, PADDED_KEY_BYTES)
    IN  zip_xor(key_padded, ipad)

\* b''.join(word.to_bytes(4, byteorder='big') for word in words)
RECURSIVE join_to_bytes_big(_)
join_to_bytes_big(words) ==
    IF words = <<>> THEN Ok(<<>>)
    ELSE LET h == to_bytes_big(Head(words), WORD_BYTES)
         IN  IF ~h.ok THEN h
             ELSE LET r == join_to_bytes_big(Tail(words))
                  IN  IF ~r.ok THEN r ELSE Ok(h.val \o r.val)

\* compute, lines 89-95, with the words encoded big-endian
compute_msg_bytes_big(message) ==
    IF message.type = "list" THEN join_to_bytes_big(message.val)
    ELSE IF message.type = "bytes" THEN Ok(message.val)
    ELSE Raise("TypeError")

\* compute, lines 89-95, refusing an empty message
compute_msg_bytes_nonempty(message) ==
    IF message.val = <<>> THEN Raise("ValueError")
    ELSE IF message.type = "list" THEN join_to_bytes_little(message.val)
    ELSE IF message.type = "bytes" THEN Ok(message.val)
    ELSE Raise("TypeError")

\* (word & 0xFFFFFFFF).to_bytes(4, 'little') on the magnitude of word
mask_to_bytes_little(x) ==
    LET n == Len(x.val)
        low == IF n > WORD_BYTES THEN SubSeq(x.val, n - WORD_BYTES + 1, n) ELSE x.val
    IN  Reverse(Repeat(0, WORD_BYTES - Len(low)) \o low)

\* compute, lines 89-95, with every word masked to 32 bits
compute_msg_bytes_mask(message) ==
    IF message.type = "list"
    THEN Ok(Concat([i \in 1..Len(message.val) |-> mask_to_bytes_little(message.val[i])]))
    ELSE IF message.type = "bytes" THEN Ok(message.val)
    ELSE Raise("TypeError")

\* compute, lines 89-95: the message as bytes, or the exception raised
compute_msg_bytes(message) ==
    IF message.type = "list" THEN join_to_bytes_little(message.val)
    ELSE IF message.type = "bytes" THEN Ok(message.val)
    ELSE Raise("TypeError")

\* compute, lines 101-107: data = ipad_block + msg_bytes, fed to the hash
compute_data(ipad_block, msg_bytes) == ipad_block \o msg_bytes

\* compute keeping the padded key in self.key
compute_self_caching(self) == [self EXCEPT !.key = pad_key(self.key)]

\* what a compute call leaves in the attributes of self: compute, _pad_key
\* and _compute_ipad_block only read self.key
compute_self(self) == self

\* ------------------------------------------------------------------------
\* SHA3_512_Hardware (python/SHA3/sha3_512.py)
\* ------------------------------------------------------------------------

\* hash_puf_mode with byteorder='big'
puf_data_bytes_big(data_704bit) == to_bytes_big(data_704bit, PUF_BYTES)

\* hash_puf_mode, line 44
puf_data_bytes(data_704bit) == to_bytes_little(data_704bit, PUF_BYTES)

\* hash_block_mode with byteorder='big'
block_data_bytes_big(words) == join_to_bytes_big(words)

\* hash_block_mode, line 67
block_data_bytes(words) == join_to_bytes_little(words)

\* hash_bytes feeds its argument as it is
hash_bytes_data(data) == data

\* ------------------------------------------------------------------------
\* verify_hmac.py and verify_keccak.py
\* ------------------------------------------------------------------------

\* int.from_bytes(b, byteorder='big')
from_bytes_big(b) == PyInt(FALSE, StripZeros(b))

\* the loop over range(64): one entry <<i, exp_byte, comp_byte>> for every
\* index where the two bytes differ, in increasing order of i
RECURSIVE byte_diffs(_, _, _)
byte_diffs(expected_bytes, computed_bytes, i) ==
    IF i >= 64 THEN <<>>
    ELSE (IF expected_bytes[i + 1] # computed_bytes[i + 1]
          THEN <<(<<i, expected_bytes[i + 1], computed_bytes[i + 1]>>)>>
          ELSE <<>>) \o byte_diffs(expected_bytes, computed_bytes, i + 1)

Outcome(status, value, diffs) == [status |-> status, value |-> value, diffs |-> diffs]

\* verify_with_hardware, lines 39-79, where the first 64 bits decide the match
verify_hmac_compare_64bits(computed_hmac_bytes, expected_hmac) ==
    LET expected_hmac_bytes == to_bytes_big(expected_hmac, 64)
    IN  IF ~expected_hmac_bytes.ok THEN Outcome(expected_hmac_bytes.err, <<>>, <<>>)
        ELSE IF SubSeq(computed_hmac_bytes, 1, 8) = SubSeq(expected_hmac_bytes.val, 1, 8)
             THEN Outcome("ok", <<TRUE>>, <<>>)
             ELSE Outcome("ok", <<FALSE>>,
                          byte_diffs(expected_hmac_bytes.val, computed_hmac_bytes, 0))

\* verify_with_hardware, lines 39-79: expected_hmac.to_bytes is evaluated
\* before the comparison of the two integers
verify_hmac_compare(computed_hmac_bytes, expected_hmac) ==
    LET computed_hmac_int == from_bytes_big(computed_hmac_bytes)
        expected_hmac_bytes == to_bytes_big(expected_hmac, 64)
    IN  IF ~expected_hmac_bytes.ok THEN Outcome(expected_hmac_bytes.err, <<>>, <<>>)
        ELSE IF computed_hmac_int = expected_hmac
             THEN Outcome("ok", <<TRUE>>, <<>>)
             ELSE Outcome("ok", <<FALSE>>,
                          byte_diffs(expected_hmac_bytes.val, computed_hmac_bytes, 0))

\* verify_puf_mode, lines 31-60, where the integers are compared modulo
\* their leading byte
verify_keccak_compare_tail(computed_hash_bytes, expected_hash) ==
    LET expected_bytes == to_bytes_big(expected_hash, 64)
    IN  IF ~expected_bytes.ok THEN Outcome(expected_bytes.err, <<>>, <<>>)
        ELSE IF Tail(computed_hash_bytes) = Tail(expected_bytes.val)
             THEN Outcome("ok", <<TRUE>>, <<>>)
             ELSE Outcome("ok", <<FALSE>>,
                          byte_diffs(expected_bytes.val, computed_hash_bytes, 0))

\* verify_puf_mode, lines 31-60, and verify_block_mode, lines 80-110:
\* expected_hash.to_bytes is evaluated on a mismatch only
verify_keccak_compare(computed_hash_bytes, expected_hash) ==
    LET computed_hash_int == from_bytes_big(computed_hash_bytes)
    IN  IF computed_hash_int = expected_hash
        THEN Outcome("ok", <<TRUE>>, <<>>)
        ELSE LET expected_bytes == to_bytes_big(expected_hash, 64)
             IN  IF ~expected_bytes.ok THEN Outcome(expected_bytes.err, <<>>, <<>>)
                 ELSE Outcome("ok", <<FALSE>>,
                              byte_diffs(expected_bytes.val, computed_hash_bytes, 0))

\* ------------------------------------------------------------------------
\* compute_hmac.py: text is a sequence of one-character strings
\* ------------------------------------------------------------------------
HexChars ==
    <<"0", "1", "2", "3", "4", "5", "6", "7", "8", "9", "a", "b", "c", "d", "e", "f">>

IsHex(c) == \E n \in 1..16 : HexChars[n] = c
HexVal(c) == (CHOOSE n \in 1..16 : HexChars[n] = c) - 1

\* text.replace('0x', ''): every occurrence is removed; two occurrences of
\* '0x' cannot overlap, so a character goes when '0x' starts at it or just
\* before it
replace_0x(text) ==
    LET at(n) == n >= 1 /\ n < Len(text) /\ text[n] = "0" /\ text[n + 1] = "x"
        indexed == [n \in 1..Len(text) |-> <<n, text[n]>>]
        kept == SelectSeq(indexed, LAMBDA p : ~at(p[1]) /\ ~at(p[1] - 1))
    IN  [n \in 1..Len(kept) |-> kept[n][2]]

\* text.replace('_', '')
replace_underscore(text) == SelectSeq(text, LAMBDA c : c # "_")

\* the bytes of an even number of hexadecimal digits
HexPairs(digits) ==
    [n \in 1..(Len(digits) \div 2) |->
        16 * HexVal(digits[2 * n - 1]) + HexVal(digits[2 * n])]

\* int(text, 16) on text without white space or underscores: an optional
\* sign, an optional 0x, then at least one hexadecimal digit and nothing
\* else; ValueError otherwise
int_base16(text) ==
    LET signed == text # <<>> /\ text[1] \in {"-", "+"}
        neg == signed /\ text[1] = "-"
        body == IF signed THEN Tail(text) ELSE text
        digits == IF Len(body) >= 2 /\ body[1] = "0" /\ body[2] = "x"
                  THEN SubSeq(body, 3, Len(body)) ELSE body
    IN  IF digits = <<>> \/ \E n \in 1..Len(digits) : ~IsHex(digits[n])
        THEN Raise("ValueError")
        ELSE LET even == IF Len(digits) % 2 = 1 THEN <<"0">> \o digits ELSE digits
                 mag == StripZeros(HexPairs(even))
             IN  Ok(PyInt(neg /\ mag # <<>>, mag))

\* word > 0xFFFFFFFF
gt_0xFFFFFFFF(word) == ~word.neg /\ Len(word.val) > 4

\* main, lines 24-34: key_int, or the error printed before sys.exit(1)
parse_key(argv1) ==
    LET key_hex == replace_underscore(replace_0x(argv1))
    IN  IF Len(key_hex) # 128 THEN Raise("Key must be 128 hex characters")
        ELSE LET key_int == int_base16(key_hex)
             IN  IF ~key_int.ok THEN Raise("Invalid hex key") ELSE key_int

\* main, lines 39-48: the word appended to message_words, or the error
\* printed before sys.exit(1)
parse_word(word_hex) ==
    LET word == int_base16(replace_underscore(replace_0x(word_hex)))
    IN  IF ~word.ok THEN Raise("Invalid hex word")
        ELSE IF gt_0xFFFFFFFF(word.val) THEN Raise("Message word exceeds 32 bits")
             ELSE word

\* ------------------------------------------------------------------------
\* Inputs
\* ------------------------------------------------------------------------
Threads == {"main", "worker"}
Main == "main"
Insts == {"h1", "h2"}
SharedInst == "h1"

\* the key of test_hmac: 0x0123456789ABCDEF repeated to 64 bytes
KeyPattern == <<1, 35, 69, 103, 137, 171, 205, 239>>
K1Bytes == Concat(Repeat(KeyPattern, 8))
\* K1 with the lowest bit of its first byte cleared
K2Bytes == <<0>> \o Tail(K1Bytes)

\* the arguments HMAC_SHA3_512 is constructed from, by name
KeyArg(name) ==
    CASE name = "int_K1" -> PyInt(FALSE, K1Bytes)                 \* 0x0123...EF
      [] name = "int_K2" -> PyInt(FALSE, Tail(K2Bytes))           \* 0x23...EF, 63 digits
      [] name = "bytes_K2" -> PyBytes(K2Bytes)
      [] name = "bytes_63" -> PyBytes(SubSeq(K1Bytes, 1, 63))
      [] name = "bytes_65" -> PyBytes(K1Bytes \o <<0>>)
      [] name = "int_2p512" -> PyInt(FALSE, <<1>> \o Repeat(0, 64)) \* 2^512
      [] name = "int_neg" -> PyInt(TRUE, <<1>>)                   \* -1
      [] OTHER -> PyStr

KeyNames ==
    {"int_K1", "int_K2", "bytes_K2", "bytes_63", "bytes_65", "int_2p512",
     "int_neg", "str"}

Words ==
    { PyInt(FALSE, <<18, 52, 86, 120>>),      \* 0x12345678
      PyInt(FALSE, <<239>>),                  \* 0xEF
      PyInt(FALSE, <<1, 0, 0, 0, 0>>),        \* 0x100000000
      PyInt(TRUE, <<1>>) }                    \* -1

\* the little-endian images of the words of Words that fit 32 bits
Chunks == { <<120, 86, 52, 18>>, <<239, 0, 0, 0>> }

SeqsUpTo(S, n) == UNION { [1..k -> S] : k \in 0..n }

WordLists == SeqsUpTo(Words, MaxWords)
ByteStrings == { Concat(cs) : cs \in SeqsUpTo(Chunks, MaxWords) } \cup { <<171>> }

Messages ==
    { PyList(l) : l \in WordLists } \cup { PyBytes(b) : b \in ByteStrings }
        \cup { PyStr }

PufInputs ==
    { PyInt(FALSE, Repeat(170, 88)),          \* 0xAA repeated 88 times
      PyInt(FALSE, <<1, 35>>),                \* 0x0123
      PyInt(FALSE, <<1>> \o Repeat(0, 88)),   \* 2^704
      PyInt(TRUE, <<1>>) }                    \* -1

\* the 22 words of a 704-bit integer, least significant word first:
\* word i is (x >> 32*i) mod 2^32
PufWords(x) ==
    [i \in 1..22 |->
        PyInt(FALSE, StripZeros(<<ByteOf(x, 4 * (i - 1) + 3), ByteOf(x, 4 * (i - 1) + 2),
                                  ByteOf(x, 4 * (i - 1) + 1), ByteOf(x, 4 * (i - 1))>>))]

PufWordLists == { PufWords(x) : x \in { y \in PufInputs : ~y.neg /\ Len(y.val) <= 88 } }

\* ------------------------------------------------------------------------
\* State
\* ------------------------------------------------------------------------
VARIABLES
    objs,     \* the HMAC_SHA3_512 objects: their attribute key, and the
              \* name of the argument they were constructed from
    pc,       \* where each thread is in its current call
    call,     \* the call each thread is in or has last returned from (karg
              \* names the key argument of a constructor call)
    local,    \* the local variables msg_bytes and ipad_block of compute
    ret,      \* how the call ended: the digest returned or the exception
    hashed,   \* the byte strings the call has fed to hashlib.sha3_512
    ncalls,   \* how many hashing calls each thread has made
    verify,   \* the run of a verification function of verify_hmac.py or
              \* verify_keccak.py: its arguments and how it ended
    cli       \* the run of main of compute_hmac.py: sys.argv, the position
              \* in main, its local variables and what it has printed

vars == <<objs, pc, call, local, ret, hashed, ncalls, verify, cli>>

NoObj == [exists |-> FALSE, key |-> <<>>, from |-> "none"]
NoCall == [op |-> "none", self |-> "none", arg |-> PyStr, karg |-> "none"]
NoLocal == [msg_bytes |-> <<>>, ipad_block |-> <<>>]
NoRet == [status |-> "none", value |-> <<>>]
Returned(v) == [status |-> "ok", value |-> v]
Raised(e) == [status |-> e, value |-> <<>>]

NoVerify ==
    [op |-> "none", karg |-> "none", arg |-> PyStr, expected |-> PyStr,
     computed |-> <<>>, status |-> "none", value |-> <<>>, diffs |-> <<>>]

NoCli ==
    [pc |-> "none", key |-> "none", words |-> <<>>, i |-> 0, key_int |-> PyStr,
     message_words |-> <<>>, hmac_key |-> <<>>, hashed |-> <<>>,
     error |-> "none", field |-> -1, exit |-> "running"]

Init ==
    /\ objs = [h \in Insts |-> NoObj]
    /\ pc = [t \in Threads |-> "idle"]
    /\ call = [t \in Threads |-> NoCall]
    /\ local = [t \in Threads |-> NoLocal]
    /\ ret = [t \in Threads |-> NoRet]
    /\ hashed = [t \in Threads |-> <<>>]
    /\ ncalls = [t \in Threads |-> 0]
    /\ verify = NoVerify
    /\ cli = NoCli

Free(t) == pc[t] \in {"idle", "done"}

\* thread t starts one more of its MaxCalls hashing calls
Count(t) ==
    /\ ncalls[t] < MaxCalls
    /\ ncalls' = [ncalls EXCEPT ![t] = @ + 1]

\* a call of thread t that runs to its end in one step
Finish(t, c, r, fed) ==
    /\ pc' = [pc EXCEPT ![t] = "done"]
    /\ call' = [call EXCEPT ![t] = c]
    /\ local' = [local EXCEPT ![t] = NoLocal]
    /\ ret' = [ret EXCEPT ![t] = r]
    /\ hashed' = [hashed EXCEPT ![t] = fed]
    /\ UNCHANGED <<verify, cli>>

\* h = HMAC_SHA3_512(KeyArg(k))
HMAC_init(t, h, k) ==
    /\ Free(t)
    /\ t = Main
    /\ ~objs[h].exists
    /\ LET r == init_key(KeyArg(k))
       IN  /\ objs' = IF r.ok
                      THEN [objs EXCEPT ![h] =
                               [exists |-> TRUE, key |-> r.val, from |-> k]]
                      ELSE objs
           /\ Finish(t, [op |-> "init", self |-> h, arg |-> PyStr, karg |-> k],
                     IF r.ok THEN Returned(<<>>) ELSE Raised(r.err), <<>>)
    /\ UNCHANGED ncalls

\* h.compute(m), lines 89-98: msg_bytes, then ipad_block from self.key
compute_begin(t, h, m) ==
    /\ Free(t)
    /\ Count(t)
    /\ objs[h].exists
    /\ t # Main => (h = SharedInst /\ m.type = "bytes")
    /\ LET r == compute_msg_bytes(m)
       IN  /\ call' = [call EXCEPT ![t] = [op |-> "compute", self |-> h, arg |-> m, karg |-> "none"]]
           /\ hashed' = [hashed EXCEPT ![t] = <<>>]
           /\ IF r.ok
              THEN /\ pc' = [pc EXCEPT ![t] = "L101"]
                   /\ local' = [local EXCEPT ![t] =
                                   [msg_bytes |-> r.val,
                                    ipad_block |-> compute_ipad_block(objs[h].key)]]
                   /\ ret' = [ret EXCEPT ![t] = NoRet]
                   /\ objs' = [objs EXCEPT ![h] = compute_self(objs[h])]
              ELSE /\ pc' = [pc EXCEPT ![t] = "done"]
                   /\ local' = [local EXCEPT ![t] = NoLocal]
                   /\ ret' = [ret EXCEPT ![t] = Raised(r.err)]
                   /\ objs' = objs
    /\ UNCHANGED <<verify, cli>>

\* h.compute(m), lines 101-107
compute_hash(t) ==
    /\ pc[t] = "L101"
    /\ LET data == compute_data(local[t].ipad_block, local[t].msg_bytes)
       IN  /\ hashed' = [hashed EXCEPT ![t] = Append(hashed[t], data)]
           /\ ret' = [ret EXCEPT ![t] = Returned(<<sha3_512(data)>>)]
    /\ pc' = [pc EXCEPT ![t] = "done"]
    /\ local' = [local EXCEPT ![t] = NoLocal]
    /\ UNCHANGED <<objs, call, ncalls, verify, cli>>

\* a static method of SHA3_512_Hardware: r is the bytes to hash or the
\* exception raised while producing them
HashCall(t, op, arg, r) ==
    /\ Free(t)
    /\ t # Main => (op = "hash_block_mode" /\ arg.val \in PufWordLists)
    /\ Count(t)
    /\ IF r.ok
       THEN Finish(t, [op |-> op, self |-> "none", arg |-> arg, karg |-> "none"],
                   Returned(<<sha3_512(r.val)>>), <<r.val>>)
       ELSE Finish(t, [op |-> op, self |-> "none", arg |-> arg, karg |-> "none"],
                   Raised(r.err), <<>>)
    /\ UNCHANGED objs

hash_puf_mode(t, x) == HashCall(t, "hash_puf_mode", x, puf_data_bytes(x))

hash_block_mode(t, words) ==
    HashCall(t, "hash_block_mode", PyList(words), block_data_bytes(words))

hash_bytes(t, data) ==
    HashCall(t, "hash_bytes", PyBytes(data), Ok(hash_bytes_data(data)))

\* ------------------------------------------------------------------------
\* The verification functions
\* ------------------------------------------------------------------------

\* values hashlib's digest() may take: 64 bytes, with or without a leading
\* zero byte
Digest1 == [i \in 1..64 |-> i]
Digest0 == <<0>> \o Tail(Digest1)
DigestSamples == {Digest1, Digest0}

\* expected values handed to the verification functions
ExpectedInputs ==
    { PyInt(FALSE, Digest1),
      PyInt(FALSE, Tail(Digest0)),                             \* 63 digits
      PyInt(FALSE, [Digest1 EXCEPT ![64] = 201]),               \* last byte differs
      PyInt(FALSE, <<1>> \o Repeat(0, 64)),                    \* 2^512
      PyInt(TRUE, <<1>>) }                                     \* -1

\* a verification function ends: r is the bytes to hash or the exception
\* raised on the way to them, dg the digest of these bytes, o the outcome
\* of the comparison
VerifyRun(op, k, arg, expected, r, dg, o) ==
    /\ verify.op = "none"
    /\ verify' =
           IF ~r.ok
           THEN [NoVerify EXCEPT !.op = op, !.karg = k, !.arg = arg,
                                 !.expected = expected, !.status = r.err]
           ELSE [op |-> op, karg |-> k, arg |-> arg, expected |-> expected,
                 computed |-> dg, status |-> o.status, value |-> o.value,
                 diffs |-> o.diffs]
    /\ UNCHANGED <<objs, pc, call, local, ret, hashed, ncalls, cli>>

\* the bytes verify_with_hardware has hashed by line 38
verify_hmac_data(k, message) ==
    LET key == init_key(KeyArg(k))
        msg_bytes == compute_msg_bytes(message)
    IN  IF ~key.ok THEN key
        ELSE IF ~msg_bytes.ok THEN msg_bytes
        ELSE Ok(compute_data(compute_ipad_block(key.val), msg_bytes.val))

verify_with_hardware(k, message, expected_hmac, dg) ==
    VerifyRun("verify_with_hardware", k, message, expected_hmac,
              verify_hmac_data(k, message), dg,
              verify_hmac_compare(dg, expected_hmac))

verify_puf_mode(data_704bit, expected_hash, dg) ==
    VerifyRun("verify_puf_mode", "none", data_704bit, expected_hash,
              puf_data_bytes(data_704bit), dg,
              verify_keccak_compare(dg, expected_hash))

verify_block_mode(words, expected_hash, dg) ==
    VerifyRun("verify_block_mode", "none", PyList(words), expected_hash,
              block_data_bytes(words), dg,
              verify_keccak_compare(dg, expected_hash))

NextVerify ==
    \E e \in ExpectedInputs, dg \in DigestSamples :
        \/ \E k \in KeyNames, m \in Messages : verify_with_hardware(k, m, e, dg)
        \/ \E x \in PufInputs : verify_puf_mode(x, e, dg)
        \/ \E w \in WordLists : verify_block_mode(w, e, dg)

SpecVerify == Init /\ [][NextVerify]_vars

\* ------------------------------------------------------------------------
\* main of compute_hmac.py
\* ------------------------------------------------------------------------

\* the hexadecimal text of a byte string
HexText(b) ==
    [n \in 1..(2 * Len(b)) |->
        IF n % 2 = 1 THEN HexChars[(b[(n + 1) \div 2] \div 16) + 1]
        ELSE HexChars[(b[n \div 2] % 16) + 1]]

\* sys.argv[1], by name
KeyText(name) ==
    CASE name = "hex_K1" -> HexText(K1Bytes)                      \* 128 digits
      [] name = "0x_K1" -> <<"0", "x">> \o HexText(K1Bytes)
      [] name = "hex_127" -> Tail(HexText(K1Bytes))               \* 127 digits
      [] name = "nonhex" -> <<"g">> \o Tail(HexText(K1Bytes))
      [] OTHER -> <<"-">> \o Tail(HexText(K1Bytes))               \* "-" and 127 digits

KeyTextNames == {"hex_K1", "0x_K1", "hex_127", "nonhex", "minus_127"}

\* sys.argv[2:] is made of these
WordTokens ==
    { <<"1", "2", "3", "4", "5", "6", "7", "8">>,
      <<"0", "x", "e", "f">>,
      <<"1", "_", "0", "0", "0", "0", "_", "0", "0", "0", "0">>,
      <<"-", "1">>,
      <<"z", "z">> }

CliDone(c, code, error, field) ==
    [c EXCEPT !.pc = "exit", !.exit = code, !.error = error, !.field = field]

\* python compute_hmac.py <k> <words>, lines 17-21
main_start(k, words) ==
    /\ cli.pc = "none"
    /\ LET c == [cli EXCEPT !.key = k, !.words = words]
       IN  cli' = IF Len(words) + 2 < 3
                  THEN CliDone(c, "1", "Usage", -1)
                  ELSE [c EXCEPT !.pc = "L24"]
    /\ UNCHANGED <<objs, pc, call, local, ret, hashed, ncalls, verify>>

\* lines 24-34
main_parse_key ==
    /\ cli.pc = "L24"
    /\ LET r == parse_key(KeyText(cli.key))
       IN  cli' = IF r.ok THEN [cli EXCEPT !.pc = "L38", !.key_int = r.val, !.i = 1]
                  ELSE CliDone(cli, "1", r.err, 0)
    /\ UNCHANGED <<objs, pc, call, local, ret, hashed, ncalls, verify>>

\* lines 38-48: one iteration of the loop over sys.argv[2:]
main_parse_word ==
    /\ cli.pc = "L38"
    /\ LET r == parse_word(cli.words[cli.i])
       IN  cli' = IF ~r.ok THEN CliDone(cli, "1", r.err, cli.i)
                  ELSE [cli EXCEPT !.message_words = Append(@, r.val),
                                   !.i = @ + 1,
                                   !.pc = IF cli.i = Len(cli.words) THEN "L62" ELSE "L38"]
    /\ UNCHANGED <<objs, pc, call, local, ret, hashed, ncalls, verify>>

\* line 62: hmac = HMAC_SHA3_512(key_int); an exception is not caught
main_construct ==
    /\ cli.pc = "L62"
    /\ LET r == init_key(cli.key_int)
       IN  cli' = IF r.ok THEN [cli EXCEPT !.pc = "L63", !.hmac_key = r.val]
                  ELSE CliDone(cli, r.err, "Traceback", -1)
    /\ UNCHANGED <<objs, pc, call, local, ret, hashed, ncalls, verify>>

\* lines 63-73: hmac.compute(message_words), then the digest is printed
main_compute ==
    /\ cli.pc = "L63"
    /\ LET r == compute_msg_bytes(PyList(cli.message_words))
       IN  cli' = IF ~r.ok THEN CliDone(cli, r.err, "Traceback", -1)
                  ELSE [CliDone(cli, "0", "none", -1) EXCEPT
                           !.hashed = <<compute_data(compute_ipad_block(cli.hmac_key),
                                                     r.val)>>]
    /\ UNCHANGED <<objs, pc, call, local, ret, hashed, ncalls, verify>>

NextMain ==
    \/ \E k \in KeyTextNames, words \in SeqsUpTo(WordTokens, MaxWords) :
           main_start(k, words)
    \/ main_parse_key
    \/ main_parse_word
    \/ main_construct
    \/ main_compute

SpecMain == Init /\ [][NextMain]_vars

Next ==
    \E t \in Threads :
        \/ \E h \in Insts, k \in KeyNames : HMAC_init(t, h, k)
        \/ \E h \in Insts, m \in Messages : compute_begin(t, h, m)
        \/ compute_hash(t)
        \/ \E x \in PufInputs : hash_puf_mode(t, x)
        \/ \E w \in WordLists \cup PufWordLists : hash_block_mode(t, w)
        \/ \E b \in ByteStrings : hash_bytes(t, b)

Spec == Init /\ [][Next]_vars

\* ------------------------------------------------------------------------
\* Vocabulary of the properties
\* ------------------------------------------------------------------------

\* x is in [0, 2^(8n))
InRange(x, n) == x.type = "int" /\ ~x.neg /\ Len(x.val) <= n

\* encode_words_le: byte 4i+j of the result is bits 8j..8j+7 of word i
EncodeWordsLE(W) ==
    [p \in 1..(4 * Len(W)) |-> ByteOf(W[((p - 1) \div 4) + 1], (p - 1) % 4)]

\* a message compute accepts: bytes, or a list of words in [0, 2^32)
ValidMessage(m) ==
    \/ m.type = "bytes"
    \/ m.type = "list" /\ \A i \in 1..Len(m.val) : InRange(m.val[i], 4)

HasBadWord(m) ==
    m.type = "list" /\ \E i \in 1..Len(m.val) : ~InRange(m.val[i], 4)

MessageBytes(m) == IF m.type = "list" THEN EncodeWordsLE(m.val) ELSE m.val

\* the 72-byte XOR block of the 64-byte key K
XorBlock(K) == [i \in 1..72 |-> IF i <= 64 THEN Xor(K[i], 54) ELSE 54]

Done(t, op) == pc[t] = "done" /\ call[t].op = op
DoneOk(t, op) == Done(t, op) /\ ret[t].status = "ok"
NothingHashed(t) == hashed[t] = <<>> /\ ret[t].value = <<>> /\ ret[t].status # "ok"

\* ------------------------------------------------------------------------
\* Properties
\* ------------------------------------------------------------------------

\* C1: a compute call on a 64-byte key K with a message M (bytes, or a list
\* of words in [0, 2^32)) feeds the hash exactly once, with X || enc(M)
\* where X is 72 bytes, X[i] = K[i] XOR 0x36 for the 64 key bytes and 0x36
\* for the last 8, and returns the digest of the hash unchanged.
C1_ComputeHashesXorBlockThenMessage ==
    \A t \in Threads :
        (Done(t, "compute") /\ ValidMessage(call[t].arg)) =>
            LET K == objs[call[t].self].key
                D == XorBlock(K) \o MessageBytes(call[t].arg)
            IN  /\ Len(K) = 64
                /\ hashed[t] = <<D>>
                /\ ret[t] = Returned(<<sha3_512(D)>>)

C1_Witness ==
    \E t \in Threads :
        /\ DoneOk(t, "compute")
        /\ call[t].arg.type = "list"
        /\ Len(call[t].arg.val) = 2
        /\ Len(hashed[t]) = 1
        /\ Len(hashed[t][1]) = 80

\* C2: a key that is not exactly 64 bytes (bytes of another length, or an
\* integer that is negative or >= 2^512) is rejected when the HMAC is
\* constructed, no object comes to exist, the hash is not invoked and no
\* digest is produced; every constructed object holds a key of 64 bytes.
BadKey(k) ==
    \/ k.type = "bytes" /\ Len(k.val) # 64
    \/ k.type = "int" /\ ~InRange(k, 64)

C2_BadKeyRejectedAtConstruction ==
    /\ \A t \in Threads :
           (Done(t, "init") /\ BadKey(KeyArg(call[t].karg))) =>
               /\ NothingHashed(t)
               /\ ~objs[call[t].self].exists
    /\ \A h \in Insts : objs[h].exists => Len(objs[h].key) = 64

C2_Witness ==
    /\ Done(Main, "init")
    /\ call[Main].karg = "bytes_63"
    /\ ret[Main].status = "ValueError"
    /\ \E h \in Insts : objs[h].exists

\* C3: a word outside [0, 2^32) anywhere in a word-list message makes
\* compute and hash_block_mode end in an error: the hash is not invoked and
\* no digest is returned.
C3_BadWordIsAnError ==
    \A t \in Threads :
        ((Done(t, "compute") \/ Done(t, "hash_block_mode"))
            /\ HasBadWord(call[t].arg)) => NothingHashed(t)

C3_Witness ==
    /\ Done(Main, "compute")
    /\ call[Main].arg.type = "list"
    /\ Len(call[Main].arg.val) = 2
    /\ InRange(call[Main].arg.val[1], 4)
    /\ ~InRange(call[Main].arg.val[2], 4)
    /\ ret[Main].status = "OverflowError"

\* two compute calls that have both returned a digest
BothComputed(t1, t2) ==
    t1 # t2 /\ DoneOk(t1, "compute") /\ DoneOk(t2, "compute")

KeyOf(t) == objs[call[t].self].key

\* C4: with the same key, compute on a word list W and compute on the bytes
\* that encode W word by word, little-endian, return the same digest.
C4_WordsAndTheirBytesAgree ==
    \A t1, t2 \in Threads :
        (/\ BothComputed(t1, t2)
         /\ KeyOf(t1) = KeyOf(t2)
         /\ call[t1].arg.type = "list"
         /\ call[t2].arg.type = "bytes"
         /\ call[t2].arg.val = EncodeWordsLE(call[t1].arg.val))
            => ret[t1].value = ret[t2].value

C4_Witness ==
    \E t1, t2 \in Threads :
        /\ BothComputed(t1, t2)
        /\ KeyOf(t1) = KeyOf(t2)
        /\ call[t1].arg.type = "list"
        /\ Len(call[t1].arg.val) = 2
        /\ call[t1].arg.val[1] # call[t1].arg.val[2]
        /\ call[t2].arg.type = "bytes"
        /\ call[t2].arg.val = EncodeWordsLE(call[t1].arg.val)

\* C5: n words in [0, 2^32) are encoded to 4n bytes, byte 4i+j being bits
\* 8j..8j+7 of word i ([0x12345678] gives 78 56 34 12); compute appends
\* these bytes to the XOR block and hash_block_mode feeds them to the hash
\* alone.
C5_WordsAreLittleEndianInOrder ==
    \A t \in Threads :
        /\ (Done(t, "hash_block_mode") /\ ValidMessage(call[t].arg)) =>
               LET W == call[t].arg.val
               IN  /\ ret[t].status = "ok"
                   /\ hashed[t] = <<EncodeWordsLE(W)>>
                   /\ Len(hashed[t][1]) = 4 * Len(W)
                   /\ ret[t].value = <<sha3_512(EncodeWordsLE(W))>>
                   /\ W = <<PyInt(FALSE, <<18, 52, 86, 120>>)>>
                          => hashed[t][1] = <<120, 86, 52, 18>>
        /\ (DoneOk(t, "compute") /\ call[t].arg.type = "list") =>
               LET W == call[t].arg.val
                   D == hashed[t][1]
               IN  /\ Len(D) = 72 + 4 * Len(W)
                   /\ SubSeq(D, 73, Len(D)) = EncodeWordsLE(W)

C5_Witness ==
    /\ DoneOk(Main, "hash_block_mode")
    /\ Len(call[Main].arg.val) = 2
    /\ call[Main].arg.val[1] = PyInt(FALSE, <<18, 52, 86, 120>>)
    /\ call[Main].arg.val[2] = PyInt(FALSE, <<239>>)
    /\ Len(hashed[Main][1]) = 8

\* C6: an object constructed from an integer v in [0, 2^512) and an object
\* constructed from the 64 bytes that are v big-endian (zero bytes on the
\* most significant side) hold the same key and return the same digest for
\* the same message.
IsBigEndianOf(b, v) ==
    Len(b) = 64 /\ \A i \in 1..64 : b[i] = ByteOf(v, 64 - i)

SameKeyAsIntAndBytes(a, b) ==
    /\ objs[a].exists
    /\ objs[b].exists
    /\ KeyArg(objs[a].from).type = "int"
    /\ KeyArg(objs[b].from).type = "bytes"
    /\ IsBigEndianOf(KeyArg(objs[b].from).val, KeyArg(objs[a].from))

C6_IntKeyAndBytesKeyAgree ==
    /\ \A t \in Threads :
           (Done(t, "init") /\ InRange(KeyArg(call[t].karg), 64)) =>
               /\ ret[t].status = "ok"
               /\ IsBigEndianOf(objs[call[t].self].key, KeyArg(call[t].karg))
    /\ \A a, b \in Insts :
           SameKeyAsIntAndBytes(a, b) =>
               /\ objs[a].key = objs[b].key
               /\ \A t1, t2 \in Threads :
                      (/\ BothComputed(t1, t2)
                       /\ call[t1].self = a
                       /\ call[t2].self = b
                       /\ call[t1].arg = call[t2].arg)
                          => ret[t1].value = ret[t2].value

C6_Witness ==
    \E a, b \in Insts, t1, t2 \in Threads :
        /\ SameKeyAsIntAndBytes(a, b)
        /\ Len(KeyArg(objs[a].from).val) = 63
        /\ BothComputed(t1, t2)
        /\ call[t1].self = a
        /\ call[t2].self = b
        /\ call[t1].arg = call[t2].arg

\* C7: hash_puf_mode(x) with x in [0, 2^704) feeds the hash exactly the 88
\* bytes of x little-endian (byte i is bits 8i..8i+7 of x) and nothing else;
\* an integer that does not fit 88 bytes is an error and the hash is not
\* invoked.
PufBytes(x) == [i \in 1..88 |-> ByteOf(x, i - 1)]

C7_PufModeHashesLittleEndian88 ==
    \A t \in Threads :
        Done(t, "hash_puf_mode") =>
            IF InRange(call[t].arg, 88)
            THEN /\ hashed[t] = <<PufBytes(call[t].arg)>>
                 /\ ret[t] = Returned(<<sha3_512(PufBytes(call[t].arg))>>)
            ELSE NothingHashed(t)

C7_Witness ==
    /\ DoneOk(Main, "hash_puf_mode")
    /\ call[Main].arg = PyInt(FALSE, <<1, 35>>)
    /\ Len(hashed[Main][1]) = 88
    /\ hashed[Main][1][1] = 35
    /\ hashed[Main][1][2] = 1

\* C8: on a constructed object compute returns a digest for every bytes
\* message and every list of words in [0, 2^32), the empty ones included;
\* for an empty message the hash input is the 72-byte XOR block alone, and
\* the empty list and the empty bytes give the same digest.
C8_EveryValidMessageIsHashed ==
    /\ \A t \in Threads :
           (Done(t, "compute") /\ ValidMessage(call[t].arg)) =>
               /\ ret[t].status = "ok"
               /\ Len(ret[t].value) = 1
               /\ call[t].arg.val = <<>> =>
                      (hashed[t] = <<XorBlock(KeyOf(t))>> /\ Len(hashed[t][1]) = 72)
    /\ \A t1, t2 \in Threads :
           (/\ Done(t1, "compute")
            /\ Done(t2, "compute")
            /\ KeyOf(t1) = KeyOf(t2)
            /\ call[t1].arg = PyList(<<>>)
            /\ call[t2].arg = PyBytes(<<>>))
               => (ret[t1].status = "ok" /\ ret[t1] = ret[t2])

C8_Witness ==
    \E t1, t2 \in Threads :
        /\ BothComputed(t1, t2)
        /\ KeyOf(t1) = KeyOf(t2)
        /\ call[t1].arg = PyList(<<>>)
        /\ call[t2].arg = PyBytes(<<>>)

\* C9: no step of compute, hash_puf_mode, hash_block_mode or hash_bytes,
\* however the calls of the threads interleave, changes an object: an
\* object changes only by being constructed; and two compute calls with
\* the same key and the same message return the same digest.
OnlyConstructionWrites ==
    \A h \in Insts :
        objs'[h] # objs[h] =>
            /\ ~objs[h].exists
            /\ objs'[h].exists
            /\ Done(Main, "init")'
            /\ call'[Main].self = h

SameInputsSameDigest ==
    \A t1, t2 \in Threads :
        (/\ BothComputed(t1, t2)
         /\ KeyOf(t1) = KeyOf(t2)
         /\ call[t1].arg = call[t2].arg)
            => ret[t1] = ret[t2]

C9_CallsLeaveNoState ==
    [][OnlyConstructionWrites /\ SameInputsSameDigest']_vars

C9_Witness ==
    /\ DoneOk(Main, "compute")
    /\ call[Main].self = SharedInst
    /\ pc["worker"] = "L101"
    /\ call["worker"].self = SharedInst
    /\ call["worker"].arg = call[Main].arg
    /\ objs[SharedInst].exists

\* C10: with the same message, two 64-byte keys that differ make compute
\* feed the hash byte strings that differ within their first 64 bytes, and
\* (the hash being collision-free) return different digests.
C10_DifferentKeysDifferentDigests ==
    \A t1, t2 \in Threads :
        (/\ BothComputed(t1, t2)
         /\ call[t1].arg = call[t2].arg
         /\ Len(KeyOf(t1)) = 64
         /\ Len(KeyOf(t2)) = 64
         /\ KeyOf(t1) # KeyOf(t2))
            => /\ \E i \in 1..64 : hashed[t1][1][i] # hashed[t2][1][i]
               /\ ret[t1].value # ret[t2].value

C10_Witness ==
    \E t1, t2 \in Threads :
        /\ BothComputed(t1, t2)
        /\ call[t1].arg = call[t2].arg
        /\ Len(call[t1].arg.val) > 0
        /\ KeyOf(t1) # KeyOf(t2)

\* C12: for x in [0, 2^704), hash_puf_mode(x) feeds the hash the same bytes
\* as hash_block_mode on the 22 words (x >> 32*i) mod 2^32, i = 0..21,
\* least significant word first, and so returns the same digest.
C12_PufModeEqualsBlockModeOnWords ==
    \A t1, t2 \in Threads :
        (/\ Done(t1, "hash_puf_mode")
         /\ InRange(call[t1].arg, 88)
         /\ Done(t2, "hash_block_mode")
         /\ call[t2].arg.val = PufWords(call[t1].arg))
            => /\ ret[t1].status = "ok"
               /\ ret[t2].status = "ok"
               /\ hashed[t1] = hashed[t2]
               /\ ret[t1].value = ret[t2].value

C12_Witness ==
    \E t1, t2 \in Threads :
        /\ DoneOk(t1, "hash_puf_mode")
        /\ call[t1].arg = PyInt(FALSE, <<1, 35>>)
        /\ DoneOk(t2, "hash_block_mode")
        /\ Len(call[t2].arg.val) = 22
        /\ call[t2].arg.val = PufWords(call[t1].arg)
        /\ call[t2].arg.val[1] = PyInt(FALSE, <<1, 35>>)
        /\ Len(hashed[t2][1]) = 88

\* C11: a verification function that has computed its digest returns True
\* exactly when the 64 computed bytes are the expected value big-endian on
\* 64 bytes, and False otherwise; with False, the reported entries are, in
\* order, the indices in 0..63 where the two differ, at least one, each with
\* the expected and the computed byte.
ExpectedBytes(e) == [i \in 1..64 |-> ByteOf(e, 64 - i)]

DiffIndices(a, b) == { i \in 0..63 : a[i + 1] # b[i + 1] }

C13_ValidationIsEager ==
    /\ cli.pc \in {"L62", "L63"} =>
           /\ InRange(cli.key_int, 64)
           /\ \A n \in 1..Len(cli.message_words) : InRange(cli.message_words[n], 4)
    /\ cli.pc = "exit" => cli.exit \in {"0", "1"}
    /\ (cli.pc = "exit" /\ cli.exit = "1") => (cli.hmac_key = <<>> /\ cli.hashed = <<>>)

====
